---- MODULE Spec2Model ----
(***************************************************************************)
(* Model of hopsworks_common.engine.execution_engine.ExecutionEngine:      *)
(*   _download_log        the bounded-retry download of one log file       *)
(*   wait_until_finished  the polling loop on an execution, followed by    *)
(*                        the wait for log aggregation                     *)
(* The backend (execution_api._get, dataset_api.exists/download) is the    *)
(* environment: every call draws its outcome nondeterministically.         *)
(***************************************************************************)
EXTENDS Integers, Sequences, FiniteSets, TLC

VARIABLES
    \* ---- _download_log ----
    dpc,            \* position: "idle", "loop", "returned", "raised"
    dl_path,        \* argument `path`: the remote log file
    retries,        \* local `retries`
    download_path,  \* local `download_path`
    dl_result,      \* value returned to the caller (None until returned)
    dl_raised,      \* error raised to the caller (NoError until raised)
    attempts,       \* history: calls of dataset_api.download
    dl_sleeps,      \* history: calls of time.sleep(5)
    transientFails, \* history: attempts that failed with the transient error
    last_error,     \* history: the error of the latest failed attempt
    \* ---- wait_until_finished ----
    wpc,            \* position: "idle", "fetch", "resolve", "logwait", "settle",
                    \*           "final", "done", "raised"
    timeout,        \* argument `timeout` (TimeoutNone when absent)
    is_yarn_job,    \* local `is_yarn_job`
    passed,         \* passed(): seconds since start_time
    updated_execution,  \* local `updated_execution`: the latest snapshot fetched
    execution_state,    \* local `execution_state`
    await_time,     \* local `await_time`
    log_aggregation_files_exist,          \* local of the same name
    log_aggregation_files_exist_already,  \* local of the same name
    w_result,       \* value returned to the caller (NullExecution until returned)
    w_raised,       \* error raised to the caller (NoError until raised)
    timeout_return, \* history: the call returned at line 125
    exists_queried, \* history: dataset_api.exists was called
    log_sleeps,     \* history: 3-second sleeps made in the log-aggregation loop
    settle_slept,   \* history: the 5-second sleep of line 163 was made
    ever_resolved,  \* history: some fetch returned a snapshot with success known
    progress_count, \* history: progress messages emitted, per state value
    last_progress,  \* history: the state value of the latest progress message
    progress_repeat,\* history: two progress messages in a row carried one value
    prev_poll_state,\* history: state fetched by the poll before the latest one
    poll_state,     \* history: state fetched by the latest poll of the loop
    poll_msgs,      \* history: progress messages emitted by the latest poll
    fetch_error,    \* history: the error execution_api._get raised (NoError if none)
    fetch_lead,     \* history: calls of execution_api._get minus 3-second sleeps
    first_state,    \* history: state of the initial fetch (closed like the progress history)
    final_lines,    \* history: the final-status lines logged at lines 165-178
    \* ---- download_logs ----
    lpc,            \* position: "idle", "pathcheck", "dircheck", "mkdir", "stream",
                    \*           "download", "return", "done", "raised"
    l_path,         \* argument `path`: None, an existing or a missing directory
    exec_path,      \* execution.stdout_path / execution.stderr_path, per stream
    cur_stream,     \* the stream being processed (stdout first, then stderr)
    dir_present,    \* the filesystem: download_log_dir exists
    dir_made,       \* history: os.mkdir(download_log_dir) succeeded in this call
    dir_raced,      \* history: the directory appeared after line 56 found it absent
    l_local,        \* locals `out_path` and `err_path`, per stream
    l_returned,     \* the pair (out_path, err_path) has been returned
    l_raised,       \* error raised to the caller (NoRaise until raised)
    stream_exists,  \* history: answer of dataset_api.exists per stream, or "unasked"
    stream_called,  \* history: _download_log was called for the stream
    stream_got,     \* history: local path the download of the stream produced
    \* ---- decorators: connected / not_connected ----
    inst_connected, \* inst._connected
    cpc,            \* position of a call of a wrapped method: "idle", "guard", "body"
    c_kind,         \* the decorator of the method called: "connected", "not_connected"
    c_seen,         \* history: inst._connected when the call was made
    c_outcome,      \* how the call ended: "none", "returned" or the error raised
    c_body_ran,     \* history: fn(inst, *args, **kwargs) ran in this call
    body_runs,      \* history: runs of the wrapped bodies, per decorator
    \* ---- TransformationStatistics ----
    ts_built,       \* TransformationStatistics(*features) has been constructed
    ts_features,    \* self._features
    ts_dict,        \* self.__dict__: per feature name its statistics object, or Absent
    stats_set,      \* history: features set_statistics was called for
    r_feature,      \* the feature of the latest property read
    r_prop,         \* the statistics property of the latest read
    r_outcome,      \* "none", "value", or "AttributeError"
    r_value,        \* the value the latest read returned
    r_fresh,        \* history: the latest read was made before set_statistics
    \* ---- Model.infer_deployment_schema ----
    s_pc,           \* position: "idle", "called", "inferred", "done", "raised"
    s_view,         \* self._feature_view: whether one is linked, and its features
    s_keys,         \* self._feature_view.serving_keys
    s_passed,       \* argument passed_features (NoList for None, or a list of names)
    s_params,       \* self._feature_view.request_parameters (NoList for None, or a list)
    s_schema,       \* the DeploymentSchema returned
    s_inputs        \* DeploymentSchema.input_features of it

dlvars == <<dpc, dl_path, retries, download_path, dl_result, dl_raised,
            attempts, dl_sleeps, transientFails, last_error>>

wvars == <<wpc, timeout, is_yarn_job, passed, updated_execution, execution_state,
           await_time, log_aggregation_files_exist, log_aggregation_files_exist_already,
           w_result, w_raised, timeout_return, exists_queried, log_sleeps, settle_slept,
           ever_resolved, progress_count, last_progress, progress_repeat,
           prev_poll_state, poll_state, poll_msgs, fetch_error,
           fetch_lead, first_state, final_lines>>

lvars == <<lpc, l_path, exec_path, cur_stream, dir_present, dir_made, dir_raced, l_local,
           l_returned, l_raised, stream_exists, stream_called, stream_got>>

connvars == <<inst_connected, cpc, c_kind, c_seen, c_outcome, c_body_ran, body_runs>>

\* the variables of the components outside the execution engine
statvars == <<ts_built, ts_features, ts_dict, stats_set, r_feature, r_prop, r_outcome,
              r_value, r_fresh>>

schemavars == <<s_pc, s_view, s_keys, s_passed, s_params, s_schema, s_inputs>>

cvars == <<connvars, statvars, schemavars>>

vars == <<dlvars, wvars, lvars, cvars>>

None == "None"

(***************************************************************************)
(* _download_log                                                           *)
(***************************************************************************)
max_num_retries == 12
TransientErrorCode == 110021
TransientStatus == 400

\* Remote log files and the local paths dataset_api.download may return.
RemotePaths == {"/x/out.log", "/x/err.log"}
LocalPaths == {"dir/a.log", "dir/b.log"}

\* A RestAPIError as the code reads it: e.response.json().get("errorCode", "")
\* and e.response.status_code.  errorCode 0 stands for any other or absent code.
NoError == [errorCode |-> -1, status_code |-> -1]
Errors == [errorCode : {TransientErrorCode, 0}, status_code : {TransientStatus, 500}]
TransientError == [errorCode |-> TransientErrorCode, status_code |-> TransientStatus]
\* the errors drawn for execution_api._get
FetchErrors == {[errorCode |-> TransientErrorCode, status_code |-> TransientStatus],
                [errorCode |-> 0, status_code |-> 500]}

\* line 77: while retries < max_num_retries
LoopCondOffByOne(r) == r <= max_num_retries
LoopCond(r) == r < max_num_retries

\* lines 84-88: the condition under which a failed attempt is retried
ShouldRetryAnyError(e, r) == r < max_num_retries
ShouldRetryCodeOnly(e, r) == e.errorCode = TransientErrorCode /\ r < max_num_retries
ShouldRetryBeforeLast(e, r) ==
    /\ e.errorCode = TransientErrorCode
    /\ e.status_code = TransientStatus
    /\ r < max_num_retries - 1
ShouldRetry(e, r) ==
    /\ e.errorCode = TransientErrorCode
    /\ e.status_code = TransientStatus
    /\ r < max_num_retries

\* line 73-76: entry of _download_log(path, download_log_dir)
DLCall(p) ==
    /\ dpc = "idle"
    /\ dpc' = "loop"
    /\ dl_path' = p
    /\ retries' = 0
    /\ download_path' = None
    /\ UNCHANGED <<dl_result, dl_raised, attempts, dl_sleeps, transientFails, last_error>>
    /\ UNCHANGED <<wvars, lvars, cvars>>

\* lines 78-82 and 93: the download succeeds, break, return download_path
DLAttemptOk(local) ==
    /\ dpc = "loop"
    /\ LoopCond(retries)
    /\ attempts' = attempts + 1
    /\ download_path' = local
    /\ dl_result' = local
    /\ dpc' = "returned"
    /\ UNCHANGED <<dl_path, retries, dl_raised, dl_sleeps, transientFails, last_error>>
    /\ UNCHANGED <<wvars, lvars, cvars>>

\* lines 78-92: the download raises RestAPIError e
DLAttemptFail(e) ==
    /\ dpc = "loop"
    /\ LoopCond(retries)
    /\ attempts' = attempts + 1
    /\ last_error' = e
    /\ transientFails' = IF e = TransientError THEN transientFails + 1 ELSE transientFails
    /\ IF ShouldRetry(e, retries)
       THEN /\ retries' = retries + 1
            /\ dl_sleeps' = dl_sleeps + 1
            /\ UNCHANGED <<dpc, dl_raised>>
       ELSE /\ dpc' = "raised"
            /\ dl_raised' = e
            /\ UNCHANGED <<retries, dl_sleeps>>
    /\ UNCHANGED <<dl_path, download_path, dl_result>>
    /\ UNCHANGED <<wvars, lvars, cvars>>

\* lines 77 and 93: the loop condition fails, return download_path
DLExhausted ==
    /\ dpc = "loop"
    /\ ~LoopCond(retries)
    /\ dl_result' = download_path
    /\ dpc' = "returned"
    /\ UNCHANGED <<dl_path, retries, download_path, dl_raised, attempts, dl_sleeps,
                   transientFails, last_error>>
    /\ UNCHANGED <<wvars, lvars, cvars>>

DLInit ==
    /\ dpc = "idle"
    /\ dl_path = None
    /\ retries = 0
    /\ download_path = None
    /\ dl_result = None
    /\ dl_raised = NoError
    /\ attempts = 0
    /\ dl_sleeps = 0
    /\ transientFails = 0
    /\ last_error = NoError

(***************************************************************************)
(* wait_until_finished                                                     *)
(***************************************************************************)
MAX_LAG == 3
AwaitBudget == 360
SettleSleep == 5
TimeoutNone == -1

\* Largest timeout the caller passes, and the cap of the message counters.
MaxTimeout == 11
MsgCap == 2

\* passed() is read only against `timeout`, so the clock may saturate above it.
ClockCap == MaxTimeout + MAX_LAG + SettleSleep
Timeouts == {TimeoutNone} \cup (0 .. MaxTimeout)

JobTypes == {None, "PySpark", "flink", "python"}
States == {None, "RUNNING", "FINISHED"}
FinalStatuses == {"UNDEFINED", "FAILED"}
Successes == {None, "True", "False"}

\* An Execution snapshot as execution_api._get returns it.
Snapshots == [success : Successes, state : States, final_status : FinalStatuses]
NullExecution == [success |-> "null", state |-> "null", final_status |-> "null"]
NoMsg == "<no message>"
NoPoll == "<no poll>"

\* job_type.lower() of the job types drawn
Lower(jt) == IF jt = "PySpark" THEN "pyspark" ELSE jt

\* lines 114-118
IsYarnJob(jt) == jt # None /\ Lower(jt) \in {"spark", "pyspark", "flink"}

\* Python truth value of `timeout`: None and 0 are false
TimeoutSetIgnoringNone(t) == t # 0
TimeoutSet(t) == t # TimeoutNone /\ t # 0

\* lines 123 and 151: timeout and timeout <= passed() + MAX_LAG
TimedOutLate(t, p) == TimeoutSet(t) /\ t <= p
TimedOut(t, p) == TimeoutSet(t) /\ t <= p + MAX_LAG

\* line 125: return updated_execution
TimeoutReturnNone(exec) == NullExecution
TimeoutReturnValue(exec) == exec

\* lines 120, 127, 155: no try/except around _get, the RestAPIError passes through
PropagateWrapped(e) == NoError
Propagate(e) == e

\* line 162: not timeout or timeout > passed() + 5
SettleAllowed(t, p) == ~TimeoutSet(t) \/ t > p + SettleSleep

\* line 128: execution_state != updated_execution.state
ShouldEmitAlways(prev, cur) == TRUE
ShouldEmitNonNull(prev, cur) == cur # None
ShouldEmit(prev, cur) == prev # cur

\* line 150: not log_aggregation_files_exist and await_time >= 0
LogWaitCondIgnoringFiles(exist, await) == await >= 0
LogWaitCond(exist, await) == ~exist /\ await >= 0

\* line 153: await_time -= MAX_LAG
AwaitAfterPollUnchanged(a) == a
AwaitAfterPoll(a) == a - MAX_LAG

\* time.sleep(d), seen by passed()
Sleep(d) == passed' = IF passed + d > ClockCap THEN ClockCap ELSE passed + d

Resolved(snap) == snap.success # None

Bump(n) == IF n < MsgCap THEN n + 1 ELSE MsgCap

\* lines 120, 127, 155: one call of execution_api._get;
\* lines 126, 154: one time.sleep(MAX_LAG) before the fetch of an iteration
CountFetch(d) == d + 1
CountPollSleepTwice(d) == d - 2
CountPollSleep(d) == d - 1

\* Python truth value of `not updated_execution.success`: None and False
NotSuccess(snap) == snap.success # "True"

\* line 121: execution_state = None
InitialExecutionStateFromFetch(snap) == snap.state
InitialExecutionState(snap) == None

\* lines 165-178: the final-status line
SuccessLine == [level |-> "info", text |-> "Execution finished successfully."]
ErrorLine(status) == [level |-> "error", text |-> status]
FinalLineAlwaysState(yarn, snap) ==
    IF NotSuccess(snap) THEN ErrorLine(snap.state) ELSE SuccessLine
FinalLine(yarn, snap) ==
    IF yarn /\ NotSuccess(snap) THEN ErrorLine(snap.final_status)
    ELSE IF ~yarn /\ NotSuccess(snap) THEN ErrorLine(snap.state)
    ELSE SuccessLine

wacct == <<fetch_lead, first_state, final_lines>>
whist == <<timeout_return, exists_queried, log_sleeps, settle_slept, ever_resolved>>
wprogress == <<progress_count, last_progress, progress_repeat,
               prev_poll_state, poll_state, poll_msgs>>
wlog == <<await_time, log_aggregation_files_exist, log_aggregation_files_exist_already>>

\* The progress history describes the polls of the resolution loop (lines 122-141).
\* No progress message is emitted after that loop, and the history is closed
\* (back to these values) when the loop is left at line 122.
ProgressClosed ==
    /\ progress_count = [s \in States |-> 0]
    /\ last_progress = NoMsg
    /\ progress_repeat = FALSE
    /\ prev_poll_state = NoPoll
    /\ poll_state = NoPoll
    /\ poll_msgs = 0

\* lines 95-118: the call, start_time, is_yarn_job
WCall(t, jt) ==
    /\ wpc = "idle"
    /\ wpc' = "fetch"
    /\ timeout' = t
    /\ is_yarn_job' = IsYarnJob(jt)
    /\ passed' = 0
    /\ UNCHANGED <<updated_execution, execution_state, w_result, w_raised>>
    /\ UNCHANGED <<wlog, whist, wprogress, dlvars, lvars, cvars>>
    /\ UNCHANGED fetch_error
    /\ UNCHANGED wacct

\* lines 120-121: the initial fetch
WFirstFetch(snap) ==
    /\ wpc = "fetch"
    /\ wpc' = "resolve"
    /\ updated_execution' = snap
    /\ execution_state' = InitialExecutionState(snap)
    /\ ever_resolved' = Resolved(snap)
    /\ UNCHANGED <<timeout, is_yarn_job, passed, w_result, w_raised>>
    /\ UNCHANGED <<timeout_return, exists_queried, log_sleeps, settle_slept>>
    /\ UNCHANGED <<wlog, wprogress, dlvars, lvars, cvars>>
    /\ UNCHANGED fetch_error
    /\ fetch_lead' = CountFetch(fetch_lead)
    /\ first_state' = snap.state
    /\ UNCHANGED final_lines

\* line 120: the initial fetch raises RestAPIError
WFirstFetchRaises(e) ==
    /\ wpc = "fetch"
    /\ wpc' = "raised"
    /\ fetch_error' = e
    /\ w_raised' = Propagate(e)
    /\ fetch_lead' = CountFetch(fetch_lead)
    /\ UNCHANGED <<first_state, final_lines>>
    /\ UNCHANGED <<timeout, is_yarn_job, passed, updated_execution, execution_state,
                   w_result>>
    /\ UNCHANGED <<wlog, whist, wprogress, dlvars, lvars, cvars>>

\* lines 122-125: success unknown and the timeout is reached
WTimeoutReturn ==
    /\ wpc = "resolve"
    /\ updated_execution.success = None
    /\ TimedOut(timeout, passed)
    /\ wpc' = "done"
    /\ w_result' = TimeoutReturnValue(updated_execution)
    /\ timeout_return' = TRUE
    /\ UNCHANGED <<timeout, is_yarn_job, passed, updated_execution, execution_state,
                   w_raised>>
    /\ UNCHANGED <<exists_queried, log_sleeps, settle_slept, ever_resolved>>
    /\ UNCHANGED <<wlog, wprogress, dlvars, lvars, cvars>>
    /\ UNCHANGED fetch_error
    /\ UNCHANGED wacct

\* lines 122-141: one poll of the resolution loop: sleep, fetch, progress message
WPoll(snap) ==
    /\ wpc = "resolve"
    /\ updated_execution.success = None
    /\ ~TimedOut(timeout, passed)
    /\ Sleep(MAX_LAG)
    /\ updated_execution' = snap
    /\ LET emit == ShouldEmit(execution_state, snap.state) IN
         /\ poll_msgs' = IF emit THEN 1 ELSE 0
         /\ progress_count' = IF emit
                THEN [progress_count EXCEPT ![snap.state] = Bump(@)]
                ELSE progress_count
         /\ last_progress' = IF emit THEN snap.state ELSE last_progress
         /\ progress_repeat' = (progress_repeat \/ (emit /\ last_progress = snap.state))
    /\ prev_poll_state' = poll_state
    /\ poll_state' = snap.state
    /\ execution_state' = snap.state
    /\ ever_resolved' = (ever_resolved \/ Resolved(snap))
    /\ UNCHANGED <<wpc, timeout, is_yarn_job, w_result, w_raised>>
    /\ UNCHANGED <<timeout_return, exists_queried, log_sleeps, settle_slept>>
    /\ UNCHANGED <<wlog, dlvars, lvars, cvars>>
    /\ UNCHANGED fetch_error
    /\ fetch_lead' = CountFetch(CountPollSleep(fetch_lead))
    /\ UNCHANGED <<first_state, final_lines>>

\* lines 126-127: the fetch of a poll raises RestAPIError
WPollRaises(e) ==
    /\ wpc = "resolve"
    /\ updated_execution.success = None
    /\ ~TimedOut(timeout, passed)
    /\ Sleep(MAX_LAG)
    /\ wpc' = "raised"
    /\ fetch_error' = e
    /\ w_raised' = Propagate(e)
    /\ fetch_lead' = CountFetch(CountPollSleep(fetch_lead))
    /\ UNCHANGED <<first_state, final_lines>>
    /\ UNCHANGED <<timeout, is_yarn_job, updated_execution, execution_state, w_result>>
    /\ UNCHANGED <<wlog, whist, wprogress, dlvars, lvars, cvars>>

\* lines 122 and 143-149: success is known; the first existence check.
\* out and err are the answers of dataset_api.exists for the two paths.
WResolved(out, err) ==
    /\ wpc = "resolve"
    /\ updated_execution.success # None
    /\ wpc' = "logwait"
    /\ await_time' = AwaitBudget
    /\ log_aggregation_files_exist' = (out /\ err)
    /\ log_aggregation_files_exist_already' = (out /\ err)
    /\ exists_queried' = TRUE
    /\ UNCHANGED <<timeout, is_yarn_job, passed, updated_execution, execution_state,
                   w_result, w_raised>>
    /\ UNCHANGED <<timeout_return, log_sleeps, settle_slept, ever_resolved>>
    /\ progress_count' = [s \in States |-> 0]
    /\ last_progress' = NoMsg
    /\ progress_repeat' = FALSE
    /\ prev_poll_state' = NoPoll
    /\ poll_state' = NoPoll
    /\ poll_msgs' = 0
    /\ UNCHANGED <<dlvars, lvars, cvars>>
    /\ UNCHANGED fetch_error
    /\ first_state' = NoPoll
    /\ UNCHANGED <<fetch_lead, final_lines>>

\* lines 150-159: one iteration of the log-aggregation loop
WLogPoll(snap, out, err) ==
    /\ wpc = "logwait"
    /\ LogWaitCond(log_aggregation_files_exist, await_time)
    /\ ~TimedOut(timeout, passed)
    /\ await_time' = AwaitAfterPoll(await_time)
    /\ Sleep(MAX_LAG)
    /\ log_sleeps' = log_sleeps + 1
    /\ updated_execution' = snap
    /\ ever_resolved' = (ever_resolved \/ Resolved(snap))
    /\ log_aggregation_files_exist' = (out /\ err)
    /\ UNCHANGED <<wpc, timeout, is_yarn_job, execution_state, w_result, w_raised>>
    /\ UNCHANGED <<log_aggregation_files_exist_already, timeout_return, exists_queried,
                   settle_slept>>
    /\ UNCHANGED <<wprogress, dlvars, lvars, cvars>>
    /\ UNCHANGED fetch_error
    /\ fetch_lead' = CountFetch(CountPollSleep(fetch_lead))
    /\ UNCHANGED <<first_state, final_lines>>

\* lines 153-155: the re-fetch of the log-aggregation loop raises RestAPIError
WLogPollRaises(e) ==
    /\ wpc = "logwait"
    /\ LogWaitCond(log_aggregation_files_exist, await_time)
    /\ ~TimedOut(timeout, passed)
    /\ await_time' = AwaitAfterPoll(await_time)
    /\ Sleep(MAX_LAG)
    /\ log_sleeps' = log_sleeps + 1
    /\ wpc' = "raised"
    /\ fetch_error' = e
    /\ w_raised' = Propagate(e)
    /\ fetch_lead' = CountFetch(CountPollSleep(fetch_lead))
    /\ UNCHANGED <<first_state, final_lines>>
    /\ UNCHANGED <<timeout, is_yarn_job, updated_execution, execution_state, w_result>>
    /\ UNCHANGED <<log_aggregation_files_exist, log_aggregation_files_exist_already>>
    /\ UNCHANGED <<timeout_return, exists_queried, settle_slept, ever_resolved>>
    /\ UNCHANGED <<wprogress, dlvars, lvars, cvars>>

\* lines 150-152: the loop condition fails, or the timeout breaks the loop
WLogExit ==
    /\ wpc = "logwait"
    /\ \/ ~LogWaitCond(log_aggregation_files_exist, await_time)
       \/ TimedOut(timeout, passed)
    /\ wpc' = "settle"
    /\ UNCHANGED <<timeout, is_yarn_job, passed, updated_execution, execution_state,
                   w_result, w_raised>>
    /\ UNCHANGED <<wlog, whist, wprogress, dlvars, lvars, cvars>>
    /\ UNCHANGED fetch_error
    /\ UNCHANGED wacct

\* lines 161-163: the settle sleep
WSettle ==
    /\ wpc = "settle"
    /\ wpc' = "final"
    /\ IF ~log_aggregation_files_exist_already /\ SettleAllowed(timeout, passed)
       THEN Sleep(SettleSleep) /\ settle_slept' = TRUE
       ELSE UNCHANGED <<passed, settle_slept>>
    /\ UNCHANGED <<timeout, is_yarn_job, updated_execution, execution_state,
                   w_result, w_raised>>
    /\ UNCHANGED <<timeout_return, exists_queried, log_sleeps, ever_resolved>>
    /\ UNCHANGED <<wlog, wprogress, dlvars, lvars, cvars>>
    /\ UNCHANGED fetch_error
    /\ UNCHANGED wacct

\* lines 165-180: the final status line and the return
WFinal ==
    /\ wpc = "final"
    /\ wpc' = "done"
    /\ w_result' = updated_execution
    /\ UNCHANGED <<timeout, is_yarn_job, passed, updated_execution, execution_state,
                   w_raised>>
    /\ UNCHANGED <<wlog, whist, wprogress, dlvars, lvars, cvars>>
    /\ UNCHANGED fetch_error
    /\ final_lines' = Append(final_lines, FinalLine(is_yarn_job, updated_execution))
    /\ UNCHANGED <<fetch_lead, first_state>>

WInit ==
    /\ wpc = "idle"
    /\ timeout = TimeoutNone
    /\ is_yarn_job = FALSE
    /\ passed = 0
    /\ updated_execution = NullExecution
    /\ execution_state = None
    /\ await_time = AwaitBudget
    /\ log_aggregation_files_exist = FALSE
    /\ log_aggregation_files_exist_already = FALSE
    /\ w_result = NullExecution
    /\ w_raised = NoError
    /\ timeout_return = FALSE
    /\ exists_queried = FALSE
    /\ log_sleeps = 0
    /\ settle_slept = FALSE
    /\ ever_resolved = FALSE
    /\ ProgressClosed
    /\ fetch_error = NoError
    /\ fetch_lead = 0
    /\ first_state = NoPoll
    /\ final_lines = <<>>

WNext ==
    \/ \E t \in Timeouts, jt \in JobTypes : WCall(t, jt)
    \/ \E snap \in Snapshots : WFirstFetch(snap)
    \/ \E e \in FetchErrors : WFirstFetchRaises(e)
    \/ WTimeoutReturn
    \/ \E snap \in Snapshots : WPoll(snap)
    \/ \E e \in FetchErrors : WPollRaises(e)
    \/ \E out, err \in BOOLEAN : WResolved(out, err)
    \/ \E snap \in Snapshots, out, err \in BOOLEAN : WLogPoll(snap, out, err)
    \/ \E e \in FetchErrors : WLogPollRaises(e)
    \/ WLogExit
    \/ WSettle
    \/ WFinal

(***************************************************************************)
(* download_logs                                                           *)
(***************************************************************************)
Streams == {"stdout", "stderr"}
FirstStreamStderr == "stderr"
FirstStream == "stdout"
\* the `path` argument: absent, a directory that exists, one that does not
PathArgs == {None, "existing", "missing"}
\* execution.stdout_path / execution.stderr_path when not None
StreamPath(s) == IF s = "stdout" THEN "/x/out.log" ELSE "/x/err.log"
NoRaise == [kind |-> "none", err |-> NoError]

\* line 46: path is not None and not os.path.exists(path)
PathRejectedNever(p) == FALSE
PathRejected(p) == p # None /\ p = "missing"

\* lines 60-62 and 66-68: <stream>_path is not None and dataset_api.exists(...)
StreamWantedIgnoringExists(path, ex) == path # None
StreamWanted(path, ex) == path # None /\ ex

\* lines 36-45: the call
LCall(p, out, err) ==
    /\ lpc = "idle"
    /\ lpc' = "pathcheck"
    /\ l_path' = p
    /\ exec_path' = [s \in Streams |-> IF s = "stdout" THEN out ELSE err]
    /\ UNCHANGED <<cur_stream, dir_present, dir_made, dir_raced, l_local, l_returned, l_raised,
                   stream_exists, stream_called, stream_got>>
    /\ UNCHANGED <<dlvars, wvars, cvars>>

\* lines 46-54: the path check, JobExecutionException or the directory name
LPathCheck ==
    /\ lpc = "pathcheck"
    /\ IF PathRejected(l_path)
       THEN /\ lpc' = "raised"
            /\ l_raised' = [kind |-> "JobExecutionException", err |-> NoError]
       ELSE /\ lpc' = "dircheck"
            /\ UNCHANGED l_raised
    /\ UNCHANGED <<l_path, exec_path, cur_stream, dir_present, dir_made, dir_raced, l_local,
                   l_returned, stream_exists, stream_called, stream_got>>
    /\ UNCHANGED <<dlvars, wvars, cvars>>

\* line 56: if not os.path.exists(download_log_dir)
LDirCheck ==
    /\ lpc = "dircheck"
    /\ lpc' = IF dir_present THEN "stream" ELSE "mkdir"
    /\ UNCHANGED <<l_path, exec_path, cur_stream, dir_present, dir_made, dir_raced, l_local,
                   l_returned, l_raised, stream_exists, stream_called, stream_got>>
    /\ UNCHANGED <<dlvars, wvars, cvars>>

\* Another thread or process creates the same directory, before line 56 or
\* between line 56 and line 57.
EnvCreateDir ==
    /\ lpc \in {"dircheck", "mkdir"}
    /\ ~dir_present
    /\ dir_present' = TRUE
    /\ dir_raced' = (lpc = "mkdir")
    /\ UNCHANGED <<lpc, l_path, exec_path, cur_stream, dir_made, l_local, l_returned, l_raised,
                   stream_exists, stream_called, stream_got>>
    /\ UNCHANGED <<dlvars, wvars, cvars>>

\* line 57: os.mkdir(download_log_dir), FileExistsError when it exists
LMkdir ==
    /\ lpc = "mkdir"
    /\ IF dir_present
       THEN /\ lpc' = "raised"
            /\ l_raised' = [kind |-> "FileExistsError", err |-> NoError]
            /\ UNCHANGED <<dir_present, dir_made>>
       ELSE /\ lpc' = "stream"
            /\ dir_present' = TRUE
            /\ dir_made' = TRUE
            /\ UNCHANGED l_raised
    /\ UNCHANGED <<l_path, exec_path, cur_stream, dir_raced, l_local, l_returned,
                   stream_exists, stream_called, stream_got>>
    /\ UNCHANGED <<dlvars, wvars, cvars>>

\* after the stream: stderr after stdout (line 65), the return after stderr
AfterStream(s) == IF s = FirstStream THEN "stream" ELSE "return"
NextStream(s) == IF s = FirstStream THEN "stderr" ELSE s

\* lines 59-60 and 65-66: the stream's path is None, no existence query
LStreamNull ==
    /\ lpc = "stream"
    /\ exec_path[cur_stream] = None
    /\ lpc' = AfterStream(cur_stream)
    /\ cur_stream' = NextStream(cur_stream)
    /\ UNCHANGED <<l_path, exec_path, dir_present, dir_made, dir_raced, l_local,
                   l_returned, l_raised, stream_exists, stream_called, stream_got>>
    /\ UNCHANGED <<dlvars, wvars, cvars>>

\* lines 60-63 and 66-69: the existence query answers ex; when the stream is
\* wanted _download_log is entered (lines 73-76)
LStreamQuery(ex) ==
    /\ lpc = "stream"
    /\ exec_path[cur_stream] # None
    /\ stream_exists' = [stream_exists EXCEPT ![cur_stream] = IF ex THEN "yes" ELSE "no"]
    /\ IF StreamWanted(exec_path[cur_stream], ex)
       THEN /\ lpc' = "download"
            /\ stream_called' = [stream_called EXCEPT ![cur_stream] = TRUE]
            /\ dpc' = "loop"
            /\ dl_path' = exec_path[cur_stream]
            /\ retries' = 0
            /\ download_path' = None
            /\ dl_result' = None
            /\ dl_raised' = NoError
            /\ attempts' = 0
            /\ dl_sleeps' = 0
            /\ transientFails' = 0
            /\ last_error' = NoError
            /\ UNCHANGED cur_stream
       ELSE /\ lpc' = AfterStream(cur_stream)
            /\ cur_stream' = NextStream(cur_stream)
            /\ UNCHANGED <<stream_called, dlvars>>
    /\ UNCHANGED <<l_path, exec_path, dir_present, dir_made, dir_raced, l_local,
                   l_returned, l_raised, stream_got>>
    /\ UNCHANGED <<wvars, cvars>>

\* lines 63 and 69: _download_log returned, out_path / err_path is assigned
LStreamReturn ==
    /\ lpc = "download"
    /\ dpc = "returned"
    /\ l_local' = [l_local EXCEPT ![cur_stream] = dl_result]
    /\ stream_got' = [stream_got EXCEPT ![cur_stream] = download_path]
    /\ dpc' = "idle"
    /\ lpc' = AfterStream(cur_stream)
    /\ cur_stream' = NextStream(cur_stream)
    /\ UNCHANGED <<l_path, exec_path, dir_present, dir_made, dir_raced, l_returned,
                   l_raised, stream_exists, stream_called>>
    /\ UNCHANGED <<dl_path, retries, download_path, dl_result, dl_raised, attempts,
                   dl_sleeps, transientFails, last_error>>
    /\ UNCHANGED <<wvars, cvars>>

\* lines 63 and 69: _download_log raised, the RestAPIError leaves download_logs
LStreamRaise ==
    /\ lpc = "download"
    /\ dpc = "raised"
    /\ lpc' = "raised"
    /\ l_raised' = [kind |-> "RestAPIError", err |-> dl_raised]
    /\ UNCHANGED <<l_path, exec_path, cur_stream, dir_present, dir_made, dir_raced, l_local,
                   l_returned, stream_exists, stream_called, stream_got>>
    /\ UNCHANGED <<dlvars, wvars, cvars>>

\* line 71: return out_path, err_path
LReturn ==
    /\ lpc = "return"
    /\ lpc' = "done"
    /\ l_returned' = TRUE
    /\ UNCHANGED <<l_path, exec_path, cur_stream, dir_present, dir_made, dir_raced, l_local,
                   l_raised, stream_exists, stream_called, stream_got>>
    /\ UNCHANGED <<dlvars, wvars, cvars>>

LInit ==
    /\ lpc = "idle"
    /\ l_path = None
    /\ exec_path = [s \in Streams |-> None]
    /\ cur_stream = FirstStream
    /\ dir_present = FALSE
    /\ dir_made = FALSE
    /\ dir_raced = FALSE
    /\ l_local = [s \in Streams |-> None]
    /\ l_returned = FALSE
    /\ l_raised = NoRaise
    /\ stream_exists = [s \in Streams |-> "unasked"]
    /\ stream_called = [s \in Streams |-> FALSE]
    /\ stream_got = [s \in Streams |-> None]

\* download_logs with the _download_log calls it makes
LNext ==
    \/ \E p \in PathArgs, out \in {None, StreamPath("stdout")},
          err \in {None, StreamPath("stderr")} : LCall(p, out, err)
    \/ LPathCheck
    \/ LDirCheck
    \/ EnvCreateDir
    \/ LMkdir
    \/ LStreamNull
    \/ \E ex \in BOOLEAN : LStreamQuery(ex)
    \/ \E local \in LocalPaths : DLAttemptOk(local)
    \/ \E e \in Errors : DLAttemptFail(e)
    \/ DLExhausted
    \/ LStreamReturn
    \/ LStreamRaise
    \/ LReturn

(***************************************************************************)
(* hopsworks_common.decorators: connected / not_connected                  *)
(***************************************************************************)
\* most runs of a wrapped body the history counts
MaxRuns == 3

Decorators == {"connected", "not_connected"}

\* line 35: if inst._connected: raise HopsworksConnectionError
NotConnectedRaises(flag) == flag

\* line 45: if not inst._connected: raise NoHopsworksConnectionError
ConnectedRaisesWhenConnected(flag) == flag
ConnectedRaises(flag) == ~flag

GuardRaises(kind, flag) ==
    IF kind = "connected" THEN ConnectedRaises(flag) ELSE NotConnectedRaises(flag)

\* lines 36 and 46: the error class each wrapper raises
GuardError(kind) ==
    IF kind = "connected" THEN "NoHopsworksConnectionError"
                          ELSE "HopsworksConnectionError"

\* a method wrapped with the decorator `kind` is called on the instance
CCall(kind) ==
    /\ cpc = "idle"
    /\ cpc' = "guard"
    /\ c_kind' = kind
    /\ c_seen' = inst_connected
    /\ c_outcome' = "none"
    /\ c_body_ran' = FALSE
    /\ UNCHANGED <<inst_connected, body_runs>>
    /\ UNCHANGED <<dlvars, wvars, lvars, statvars, schemavars>>

\* lines 35-36 and 45-46: the test of inst._connected
CGuard ==
    /\ cpc = "guard"
    /\ IF GuardRaises(c_kind, inst_connected)
       THEN /\ cpc' = "idle"
            /\ c_outcome' = GuardError(c_kind)
       ELSE /\ cpc' = "body"
            /\ UNCHANGED c_outcome
    /\ UNCHANGED <<inst_connected, c_kind, c_seen, c_body_ran, body_runs>>
    /\ UNCHANGED <<dlvars, wvars, lvars, statvars, schemavars>>

\* lines 37 and 47: return fn(inst, *args, **kwargs); the body may connect or
\* close the instance (flag is inst._connected when it returns)
CBody(flag) ==
    /\ cpc = "body"
    /\ cpc' = "idle"
    /\ inst_connected' = flag
    /\ c_body_ran' = TRUE
    /\ c_outcome' = "returned"
    /\ body_runs' = [body_runs EXCEPT ![c_kind] = IF @ < MaxRuns THEN @ + 1 ELSE @]
    /\ UNCHANGED <<c_kind, c_seen>>
    /\ UNCHANGED <<dlvars, wvars, lvars, statvars, schemavars>>

ConnInit ==
    /\ inst_connected = FALSE
    /\ cpc = "idle"
    /\ c_kind = "connected"
    /\ c_seen = FALSE
    /\ c_outcome = "none"
    /\ c_body_ran = FALSE
    /\ body_runs = [k \in Decorators |-> 0]

ConnNext ==
    \/ \E kind \in Decorators : CCall(kind)
    \/ CGuard
    \/ \E flag \in BOOLEAN : CBody(flag)

(***************************************************************************)
(* hsfs.transformation_statistics                                          *)
(***************************************************************************)
FeatureNames == {"feature1", "feature2"}
\* statistics kept in attributes that __init__ always assigns (lines 54-68)
BasicStats == {"min", "max", "mean", "stddev", "percentiles"}
\* statistics taken from extended_statistics (lines 75-78)
ExtStats == {"correlations", "histogram", "kll", "unique_values"}
StatValues == {None, "v"}
NullStats == [p \in BasicStats |-> None]
NullExt == [k \in ExtStats |-> None]
\* no attribute of this feature name in self.__dict__
Absent == [present |-> FALSE, basic |-> NullStats, has_ext |-> FALSE, ext |-> NullExt]

\* extended_statistics: None, a dict, or a JSON string of a dict.  A dict is
\* given by its keys; every key present carries the value "v".
ExtDicts == {{}, {"histogram"}, ExtStats}
ExtArgs == {[form |-> "none", keys |-> {}]} \cup [form : {"dict", "str"}, keys : ExtDicts]

\* lines 69-73: json.loads for a string, the object itself otherwise
Loaded(ext) == IF ext.form = "str" THEN [form |-> "dict", keys |-> ext.keys] ELSE ext

\* line 74: truth value of extended_statistics: None and {} are false
ExtTruthy(ext) == ext.form = "dict" /\ ext.keys # {}

\* lines 75-78: extended_statistics.get(key, None)
ExtGet(ext, k) == IF k \in ext.keys THEN "v" ELSE None

\* lines 53-78: FeatureTransformationStatistics.__init__
\* has_ext: the attributes _correlations, _histogram, _kll and _unique_values
\* exist (they are assigned only inside the `if` of line 74)
NewFeatureStatistics(basic, ext) ==
    [present |-> TRUE,
     basic |-> basic,
     has_ext |-> ExtTruthy(Loaded(ext)),
     ext |-> IF ExtTruthy(Loaded(ext))
             THEN [k \in ExtStats |-> ExtGet(Loaded(ext), k)]
             ELSE NullExt]

\* lines 236-248: init_statistics, every argument at its default
InitStatistics(f) ==
    NewFeatureStatistics(NullStats, [form |-> "none", keys |-> {}])

\* the statistics dicts set_statistics is given (already decamelized, line 206)
StatDicts == [basic : {NullStats, [p \in BasicStats |-> "v"]},
              ext : ExtArgs]

\* lines 230-234: TransformationStatistics(*features)
TSConstruct(features) ==
    /\ ~ts_built
    /\ ts_built' = TRUE
    /\ ts_features' = features
    /\ ts_dict' = [f \in FeatureNames |-> IF f \in features THEN InitStatistics(f) ELSE Absent]
    /\ UNCHANGED <<stats_set, r_feature, r_prop, r_outcome, r_value, r_fresh>>
    /\ UNCHANGED <<dlvars, wvars, lvars, connvars, schemavars>>

\* lines 250-264: set_statistics(feature_name, statistics)
TSSetStatistics(f, d) ==
    /\ ts_built
    /\ ts_dict' = [ts_dict EXCEPT ![f] = NewFeatureStatistics(d.basic, d.ext)]
    /\ stats_set' = stats_set \cup {f}
    /\ UNCHANGED <<ts_built, ts_features, r_feature, r_prop, r_outcome, r_value, r_fresh>>
    /\ UNCHANGED <<dlvars, wvars, lvars, connvars, schemavars>>

\* lines 110-200: reading the property p of the statistics of feature f
TSRead(f, p) ==
    /\ ts_built
    /\ ts_dict[f].present
    /\ r_feature' = f
    /\ r_prop' = p
    /\ r_fresh' = (f \in ts_features /\ f \notin stats_set)
    /\ IF p \in ExtStats /\ ~ts_dict[f].has_ext
       THEN r_outcome' = "AttributeError" /\ r_value' = None
       ELSE /\ r_outcome' = "value"
            /\ r_value' = IF p \in ExtStats THEN ts_dict[f].ext[p] ELSE ts_dict[f].basic[p]
    /\ UNCHANGED <<ts_built, ts_features, ts_dict, stats_set>>
    /\ UNCHANGED <<dlvars, wvars, lvars, connvars, schemavars>>

StatInit ==
    /\ ts_built = FALSE
    /\ ts_features = {}
    /\ ts_dict = [f \in FeatureNames |-> Absent]
    /\ stats_set = {}
    /\ r_feature = None
    /\ r_prop = None
    /\ r_outcome = "none"
    /\ r_value = None
    /\ r_fresh = FALSE

StatNext ==
    \/ \E features \in SUBSET FeatureNames : TSConstruct(features)
    \/ \E f \in FeatureNames, d \in StatDicts : TSSetStatistics(f, d)
    \/ \E f \in FeatureNames, p \in BasicStats \cup ExtStats : TSRead(f, p)

(***************************************************************************)
(* hsml.model.Model.infer_deployment_schema, DeploymentSchema.input_features *)
(***************************************************************************)
\* longest list of serving keys and of passed features, and of request parameters
MaxList == 2
MaxParams == 1

Names == {"a", "ab", "b"}
\* a name as the sequence of its letters (positions in the alphabet)
Letters(n) == CASE n = "a" -> <<1>> [] n = "ab" -> <<1, 2>> [] n = "b" -> <<2>>

\* Python's `<` on strings: lexicographic, a proper prefix is smaller
RECURSIVE LexLess(_, _)
LexLess(x, y) ==
    IF y = <<>> THEN FALSE
    ELSE IF x = <<>> THEN TRUE
    ELSE IF Head(x) # Head(y) THEN Head(x) < Head(y)
    ELSE LexLess(Tail(x), Tail(y))

StrLess(a, b) == LexLess(Letters(a), Letters(b))

\* x put into an ascending list after every element that is not greater
InsertAt(sorted, x, greater) ==
    LET k == IF greater = {} THEN Len(sorted) + 1
             ELSE CHOOSE i \in greater : \A j \in greater : i <= j
    IN SubSeq(sorted, 1, k - 1) \o <<x>> \o SubSeq(sorted, k, Len(sorted))

\* sorted(list, key=lambda d: d["name"]): stable, ascending (model.py 332-366)
RECURSIVE SortedByName(_)
SortedByName(list) ==
    IF list = <<>> THEN <<>>
    ELSE LET front == SortedByName(SubSeq(list, 1, Len(list) - 1))
             x == list[Len(list)]
         IN InsertAt(front, x, {i \in 1 .. Len(front) : StrLess(x.name, front[i].name)})

\* sorted(list of names) (deployment_schema.py 67, 76, 85)
RECURSIVE SortedNames(_)
SortedNames(list) ==
    IF list = <<>> THEN <<>>
    ELSE LET front == SortedNames(SubSeq(list, 1, Len(list) - 1))
             x == list[Len(list)]
         IN InsertAt(front, x, {i \in 1 .. Len(front) : StrLess(x, front[i])})

SeqsUpTo(S, n) == UNION {[1 .. k -> S] : k \in 0 .. n}

\* self._feature_view: none linked, one without features, one with "a" and "b"
NoView == [linked |-> FALSE, features |-> {}]
FeatureViews ==
    {[linked |-> TRUE, features |-> {}],
     [linked |-> TRUE, features |-> {[name |-> "a", type |-> "bigint"],
                                     [name |-> "b", type |-> "string"]}]}
\* an Optional[List[str]]: None, or a list
NoList == [given |-> FALSE, list |-> <<>>]
OptLists(n) == {NoList} \cup [given : {TRUE}, list : SeqsUpTo(Names, n)]
ServingKeys == [feature_name : Names, required : BOOLEAN]

\* model.py 336, 347, 359: features_name_type_mapping.get(name, "unknown")
TypeOrUnknown(view, n) ==
    IF \E f \in view.features : f.name = n
    THEN (CHOOSE f \in view.features : f.name = n).type
    ELSE "unknown"

\* model.py 343-366: the list, or [] when it is None or empty
ListOrEmpty(opt) == IF opt.given /\ opt.list # <<>> THEN opt.list ELSE <<>>

Typed(view, names) == [i \in 1 .. Len(names) |-> [name |-> names[i], type |-> TypeOrUnknown(view, names[i])]]

RequiredKeys(keys) == SelectSeq(keys, LAMBDA sk : sk.required)

\* model.py 326-374
InferSchema(view, keys, pf, params) ==
    [serving_key_schema |->
        SortedByName(Typed(view, [i \in 1 .. Len(RequiredKeys(keys)) |->
                                      RequiredKeys(keys)[i].feature_name])),
     passed_feature_schema |-> SortedByName(Typed(view, ListOrEmpty(pf))),
     request_parameter_schema |-> SortedByName(Typed(view, ListOrEmpty(params)))]

\* deployment_schema.py 63-88: serving_keys, passed_features, request_parameters
SchemaNames(schema) == SortedNames([i \in 1 .. Len(schema) |-> schema[i].name])

\* deployment_schema.py 90-94
InputFeaturesResorted(schema) ==
    SortedNames(SchemaNames(schema.serving_key_schema)
                \o SchemaNames(schema.passed_feature_schema)
                \o SchemaNames(schema.request_parameter_schema))
InputFeatures(schema) ==
    SchemaNames(schema.serving_key_schema)
    \o SchemaNames(schema.passed_feature_schema)
    \o SchemaNames(schema.request_parameter_schema)

NoSchema == [serving_key_schema |-> <<>>, passed_feature_schema |-> <<>>,
             request_parameter_schema |-> <<>>]

\* model.py 302-305: the call, on a model whose feature view is `view`
SCall(view, keys, pf, params) ==
    /\ s_pc = "idle"
    /\ s_pc' = "called"
    /\ s_view' = view
    /\ s_keys' = keys
    /\ s_passed' = pf
    /\ s_params' = params
    /\ UNCHANGED <<s_schema, s_inputs>>
    /\ UNCHANGED <<dlvars, wvars, lvars, connvars, statvars>>

\* model.py 314-374: ModelRegistryException without a feature view, else the schema
SInfer ==
    /\ s_pc = "called"
    /\ IF ~s_view.linked
       THEN s_pc' = "raised" /\ UNCHANGED s_schema
       ELSE /\ s_pc' = "inferred"
            /\ s_schema' = InferSchema(s_view, s_keys, s_passed, s_params)
    /\ UNCHANGED <<s_view, s_keys, s_passed, s_params, s_inputs>>
    /\ UNCHANGED <<dlvars, wvars, lvars, connvars, statvars>>

\* deployment_schema.py 90-94: input_features of the schema returned
SInputFeatures ==
    /\ s_pc = "inferred"
    /\ s_pc' = "done"
    /\ s_inputs' = InputFeatures(s_schema)
    /\ UNCHANGED <<s_view, s_keys, s_passed, s_params, s_schema>>
    /\ UNCHANGED <<dlvars, wvars, lvars, connvars, statvars>>

SchemaInit ==
    /\ s_pc = "idle"
    /\ s_view = NoView
    /\ s_keys = <<>>
    /\ s_passed = NoList
    /\ s_params = NoList
    /\ s_schema = NoSchema
    /\ s_inputs = <<>>

SchemaNext ==
    \/ /\ s_pc = "idle"
       /\ \E view \in {NoView} \cup FeatureViews, keys \in SeqsUpTo(ServingKeys, MaxList),
             pf \in OptLists(MaxList), params \in OptLists(MaxParams) :
               SCall(view, keys, pf, params)
    \/ SInfer
    \/ SInputFeatures

DLNext ==
    \/ \E p \in RemotePaths : DLCall(p)
    \/ \E local \in LocalPaths : DLAttemptOk(local)
    \/ \E e \in Errors : DLAttemptFail(e)
    \/ DLExhausted

Init == DLInit /\ WInit /\ LInit /\ ConnInit /\ StatInit /\ SchemaInit

SpecDL == Init /\ [][DLNext]_vars

SpecWait == Init /\ [][WNext]_vars

SpecLogs == Init /\ [][LNext]_vars

SpecConn == Init /\ [][ConnNext]_vars

SpecStats == Init /\ [][StatNext]_vars

SpecSchema == Init /\ [][SchemaNext]_vars

\* The calling thread runs on as long as a step of the call is possible.
FairWait == Init /\ [][WNext]_vars /\ WF_vars(WNext)

\* wait_until_finished called without a timeout (timeout=None, the default):
\* line 123 is then false at every evaluation, so the return of line 125 is no
\* step of these calls.
WNextNoTimeout ==
    \/ \E jt \in JobTypes : WCall(TimeoutNone, jt)
    \/ \E snap \in Snapshots : WFirstFetch(snap)
    \/ \E e \in FetchErrors : WFirstFetchRaises(e)
    \/ \E snap \in Snapshots : WPoll(snap)
    \/ \E e \in FetchErrors : WPollRaises(e)
    \/ \E out, err \in BOOLEAN : WResolved(out, err)
    \/ \E snap \in Snapshots, out, err \in BOOLEAN : WLogPoll(snap, out, err)
    \/ \E e \in FetchErrors : WLogPollRaises(e)
    \/ WLogExit
    \/ WSettle
    \/ WFinal

FairWaitNoTimeout == Init /\ [][WNextNoTimeout]_vars /\ WF_vars(WNextNoTimeout)

\* _download_log has ended, and every attempt it made failed with the transient error
DLEnded == dpc \in {"returned", "raised"}
AllAttemptsTransient == attempts > 0 /\ transientFails = attempts

\* C1: when every download attempt fails with the transient error, _download_log
\* ends by raising that last error; it never returns normally.
C1_RaisesAfterExhaustion ==
    (DLEnded /\ AllAttemptsTransient) => (dpc = "raised" /\ dl_raised = TransientError)

\* C2: dataset_api.download is called at most 12 times in any execution of
\* _download_log, and exactly 12 times when every attempt fails transiently.
C2_AtMostTwelveAttempts ==
    /\ attempts <= max_num_retries
    /\ (DLEnded /\ AllAttemptsTransient) => attempts = max_num_retries

C2_Witness == DLEnded /\ AllAttemptsTransient /\ attempts = max_num_retries

(***************************************************************************)
(* wait_until_finished: properties                                         *)
(***************************************************************************)
WEnded == wpc \in {"done", "raised"}

\* C3: for every timeout T >= 0 the caller supplies (T = 0 included) and every
\* backend behaviour, wait_until_finished eventually ends; it never blocks
\* indefinitely when a timeout is set.
C3_ReturnsWhenTimeoutSet ==
    (wpc = "fetch" /\ timeout # TimeoutNone) ~> WEnded

\* The same with a timeout that Python takes as true (T > 0).
ReturnsWhenTimeoutPositive ==
    (wpc = "fetch" /\ TimeoutSet(timeout)) ~> WEnded

C5_NoneOnTimeout ==
    wpc = "done" =>
        IF timeout_return THEN w_result = NullExecution
                          ELSE w_result = updated_execution

\* C6: when a timeout is set, every sleep of the call ends no later than the
\* timeout, counted from the start of the call.
C6_NoSleepPastDeadline ==
    timeout # TimeoutNone => passed <= timeout

\* The same with a timeout that Python takes as true (T > 0).
NoSleepPastPositiveDeadline ==
    TimeoutSet(timeout) => passed <= timeout

\* C7 (as stated): within one call a progress message is emitted at most once
\* per distinct value of the state field, also for a state left and seen again.
C7_OncePerStateValue ==
    \A s \in States : progress_count[s] <= 1

\* C7 (amended): a progress message is emitted at most once per run of
\* consecutive polls that observe the same state value: two progress messages in
\* a row never carry the same state value.
C7_OncePerRunOfEqualStates ==
    ~progress_repeat

C7_Witness ==
    /\ \E s \in States : progress_count[s] = 2
    /\ ~progress_repeat
    /\ prev_poll_state # NoPoll

\* C8: a poll of the resolution loop whose state equals the state of the poll
\* before it emits no progress message, and a poll whose state differs from it
\* emits exactly one.
C8_MessageExactlyOnChange ==
    prev_poll_state # NoPoll =>
        poll_msgs = IF poll_state = prev_poll_state THEN 0 ELSE 1

C8_Witness ==
    /\ prev_poll_state # NoPoll
    /\ poll_state = prev_poll_state
    /\ poll_msgs = 0
    /\ progress_count[poll_state] = 1

\* C9: once a snapshot with success true or false has been fetched, the
\* snapshot finally returned has success true or false as well.
C9_StaysResolved ==
    (wpc = "done" /\ ever_resolved) => w_result.success # None

\* C10: with no timeout and log files that never appear, the log-aggregation
\* loop sleeps at most 360 seconds, that is at most 120 polls of 3 seconds.
C10_LogWaitWithinBudget ==
    timeout = TimeoutNone => log_sleeps * MAX_LAG <= AwaitBudget

\* C11: when success is resolved and both log files exist at the first
\* existence check, the call makes no further sleep (poll or settle) and no
\* further fetch, and returns the snapshot on which success resolved.
AfterResolution == wpc \in {"logwait", "settle", "final", "done"}

C11_SkipsLogWaitWhenFilesExist ==
    /\ [](AfterResolution /\ log_aggregation_files_exist_already =>
            /\ log_sleeps = 0
            /\ ~settle_slept
            /\ updated_execution.success # None
            /\ (wpc = "done" => w_result = updated_execution))
    /\ [][AfterResolution /\ log_aggregation_files_exist_already =>
            /\ updated_execution' = updated_execution
            /\ passed' = passed
            /\ wpc' # "raised"]_vars

C11_Witness ==
    /\ wpc = "done"
    /\ log_aggregation_files_exist_already
    /\ passed = MAX_LAG
    /\ w_result.success = "True"

\* C12: when the log files did not both exist at resolution time, the settle
\* sleep is made exactly when no timeout is set or timeout - elapsed >= 5
\* (exactly 5 seconds of headroom included), and skipped otherwise.
C12_SettleSleepWithFiveSecondsHeadroom ==
    [][(wpc = "settle" /\ ~log_aggregation_files_exist_already) =>
          (settle_slept' <=>
              (timeout = TimeoutNone \/ timeout - passed >= SettleSleep))]_vars

\* What the code does at line 162: timeout false in Python, or strictly more
\* than 5 seconds of headroom.
SettleSleepWithMoreThanFiveSeconds ==
    [][(wpc = "settle" /\ ~log_aggregation_files_exist_already) =>
          (settle_slept' <=>
              (~TimeoutSet(timeout) \/ timeout - passed > SettleSleep))]_vars

\* The same for a timeout that Python takes as true: the boundary alone.
SettleSleepAtFiveSecondsForPositiveTimeout ==
    [][(wpc = "settle" /\ ~log_aggregation_files_exist_already /\ TimeoutSet(timeout)) =>
          (settle_slept' <=> timeout - passed >= SettleSleep)]_vars

\* C13: with 0 < T <= 3 and a first fetch that returns an unresolved snapshot,
\* the call returns that snapshot after exactly one fetch and no sleep, and
\* never reaches the log wait.
FirstFetchUnresolved ==
    /\ wpc \notin {"idle", "fetch"}
    /\ updated_execution \in Snapshots
    /\ ~ever_resolved

C14_ReturnsAfterKPlusOneAttempts ==
    (dpc = "returned" /\ download_path # None) =>
        /\ transientFails <= max_num_retries - 1
        /\ attempts = transientFails + 1
        /\ dl_sleeps = transientFails
        /\ dl_result = download_path
        /\ dl_result \in LocalPaths

C14_Witness ==
    /\ dpc = "returned"
    /\ transientFails = 3
    /\ attempts = 4
    /\ dl_result \in LocalPaths

\* C15: an error of the download that is not the pair (errorCode 110021, HTTP
\* 400) is never retried: no further attempt and no sleep follow it, and the
\* same error is raised to the caller, on whichever attempt it occurs.
C15_OtherErrorsPropagateAtOnce ==
    (last_error \notin {NoError, TransientError}) =>
        /\ dpc = "raised"
        /\ dl_raised = last_error
        /\ attempts = transientFails + 1
        /\ dl_sleeps = transientFails
        /\ ~ENABLED DLNext

C15_Witness ==
    /\ dpc = "raised"
    /\ dl_raised = [errorCode |-> TransientErrorCode, status_code |-> 500]
    /\ attempts = 3

\* C16: in the pair download_logs returns, an element is null only when the
\* stream's path is null or its remote file does not exist; never for a
\* download that was attempted and failed.
C16_NullOnlyWhenAbsent ==
    l_returned =>
        \A s \in Streams :
            l_local[s] = None => (exec_path[s] = None \/ stream_exists[s] = "no")

\* C17: download_logs called with a path that does not exist raises
\* JobExecutionException before any existence query, any download and any
\* directory creation.
C17_MissingPathFailsFirst ==
    /\ (l_path = "missing" /\ lpc \notin {"idle", "pathcheck"}) =>
          /\ lpc = "raised"
          /\ l_raised.kind = "JobExecutionException"
          /\ ~dir_present
          /\ ~dir_made
          /\ \A s \in Streams : stream_exists[s] = "unasked" /\ ~stream_called[s]
          /\ dpc = "idle"
          /\ attempts = 0
    /\ l_raised.kind = "JobExecutionException" => l_path = "missing"

C17_Witness ==
    /\ lpc = "raised"
    /\ l_path = "missing"
    /\ l_raised.kind = "JobExecutionException"

\* C18: stdout and stderr follow one rule: a null path gets no existence query
\* and no download and yields null; a file that does not exist gets no download
\* and yields null; otherwise the stream is downloaded, and the element is the
\* local path the download produced.  (None, local stderr path) is returned for
\* a null stdout path and an existing stderr file.
C18_SameRuleForBothStreams ==
    \A s \in Streams :
        /\ exec_path[s] = None =>
              stream_exists[s] = "unasked" /\ ~stream_called[s] /\ l_local[s] = None
        /\ stream_exists[s] = "no" => ~stream_called[s] /\ l_local[s] = None
        /\ stream_exists[s] = "yes" => stream_called[s]
        /\ l_returned =>
              /\ exec_path[s] # None => stream_exists[s] # "unasked"
              /\ stream_got[s] # None =>
                    l_local[s] = stream_got[s] /\ l_local[s] \in LocalPaths

C18_Witness ==
    /\ l_returned
    /\ exec_path["stdout"] = None
    /\ l_local["stdout"] = None
    /\ stream_exists["stderr"] = "yes"
    /\ l_local["stderr"] \in LocalPaths

\* C19: if another thread or process creates the log directory between the
\* existence check and the mkdir, download_logs raises no error and continues.
C19_MkdirToleratesRace ==
    dir_raced => l_raised.kind # "FileExistsError"

\* C20: a RestAPIError raised by any fetch of wait_until_finished reaches the
\* caller unchanged, and the call makes no further step (fetch, sleep or retry).
C20_FetchErrorPropagates ==
    /\ fetch_error # NoError =>
          /\ wpc = "raised"
          /\ w_raised = fetch_error
          /\ ~ENABLED WNext
    /\ wpc = "raised" => fetch_error \in FetchErrors

C20_Witness ==
    /\ wpc = "raised"
    /\ log_sleeps = 2
    /\ w_raised \in FetchErrors

\* the clock d seconds after p, as passed() shows it
Later(p, d) == IF p + d > ClockCap THEN ClockCap ELSE p + d

\* C21: with no timeout supplied the call waits unboundedly for resolution: it
\* returns only when some fetch has returned a snapshot with success true or
\* false, and once one has, it ends; while success is unknown the only step is
\* another poll 3 seconds later, and the timeout return is never taken.
C21_WaitsUnboundedlyWithoutTimeout ==
    /\ [](timeout = TimeoutNone =>
            /\ (wpc = "done" => ever_resolved)
            /\ ~timeout_return
            /\ (wpc = "resolve" /\ updated_execution.success = None =>
                    /\ ~ENABLED WTimeoutReturn
                    /\ ENABLED (\E snap \in Snapshots : WPoll(snap))))
    /\ [][(timeout = TimeoutNone /\ wpc = "resolve" /\ updated_execution.success = None) =>
            /\ passed' = Later(passed, MAX_LAG)
            /\ wpc' \in {"resolve", "raised"}]_vars
    /\ ((timeout = TimeoutNone /\ wpc = "resolve" /\ ever_resolved) ~> WEnded)

C21_Witness ==
    /\ wpc = "done"
    /\ timeout = TimeoutNone
    /\ passed = ClockCap
    /\ execution_state = "FINISHED"
    /\ ever_resolved

\* C25: with no timeout set, once success has resolved the call ends after
\* finitely many further polls, also when the log files never appear: every
\* poll of the log wait takes MAX_LAG off await_time, there are never more than
\* AwaitBudget / MAX_LAG + 1 of them, and the log wait always leads to the end
\* of the call.
C25_LogWaitTerminates ==
    /\ [](timeout = TimeoutNone =>
            /\ log_sleeps * MAX_LAG = AwaitBudget - await_time
            /\ log_sleeps <= AwaitBudget \div MAX_LAG + 1)
    /\ ((timeout = TimeoutNone /\ wpc = "logwait") ~> WEnded)

C25_Witness ==
    /\ wpc = "done"
    /\ timeout = TimeoutNone
    /\ ~log_aggregation_files_exist
    /\ log_sleeps = AwaitBudget \div MAX_LAG + 1

\* C26: a return after resolution has emitted exactly one final-status line: an
\* error line when the returned snapshot's success is not true (with
\* final_status for spark, pyspark and flink jobs, with state for other jobs),
\* the line 'Execution finished successfully.' when it is true.  The
\* unresolved-timeout return has emitted none, and none is emitted earlier.
C26_OneFinalStatusLine ==
    /\ (wpc = "done" /\ ~timeout_return) =>
          /\ Len(final_lines) = 1
          /\ final_lines[1] =
                IF w_result.success # "True"
                THEN [level |-> "error",
                      text |-> IF is_yarn_job THEN w_result.final_status
                                              ELSE w_result.state]
                ELSE [level |-> "info", text |-> "Execution finished successfully."]
    /\ (wpc # "done" \/ timeout_return) => final_lines = <<>>

C26_Witness ==
    /\ wpc = "done"
    /\ ~timeout_return
    /\ is_yarn_job
    /\ w_result.success = "False"
    /\ final_lines = <<[level |-> "error", text |-> "FAILED"]>>

\* C27: at every return the fetches made are the 3-second sleeps plus one: the
\* initial fetch has no sleep before it, and every later fetch, in the
\* resolution loop and in the log-wait loop, comes with exactly one 3-second
\* sleep right before it.
C27_FetchesAreSleepsPlusOne ==
    /\ [](wpc \in {"resolve", "logwait", "settle", "final", "done"} => fetch_lead = 1)
    /\ []((wpc = "resolve" /\ poll_state = NoPoll) => passed = 0)
    /\ [][(wpc \in {"resolve", "logwait"} /\ wpc' = wpc) =>
            passed' = Later(passed, MAX_LAG)]_vars

C27_Witness ==
    /\ wpc = "done"
    /\ ~timeout_return
    /\ execution_state = "RUNNING"
    /\ log_sleeps = 2
    /\ fetch_lead = 1

\* C28: the initial fetch emits no progress message; the first poll of the
\* resolution loop emits one exactly when its state is non-null, also when that
\* state equals the state of the initial fetch; a call whose first fetch is
\* already resolved has emitted none when it leaves the loop, and none is
\* emitted after the loop.
C28_FirstPollAlwaysReports ==
    /\ []((wpc = "resolve" /\ poll_state = NoPoll) =>
            /\ \A s \in States : progress_count[s] = 0
            /\ last_progress = NoMsg)
    /\ []((poll_state # NoPoll /\ prev_poll_state = NoPoll) =>
            poll_msgs = IF poll_state # None THEN 1 ELSE 0)
    /\ [][(wpc \in {"logwait", "settle", "final"}) => wprogress' = wprogress]_vars

C28_Witness ==
    /\ wpc = "resolve"
    /\ prev_poll_state = NoPoll
    /\ first_state = "RUNNING"
    /\ poll_state = "RUNNING"
    /\ poll_msgs = 1

\* C29: download_logs handles stdout strictly before stderr, and an error raised
\* while downloading stdout ends the call: no existence query and no download
\* for stderr, no pair returned, and the log directory stays in place.
C29_StdoutErrorAbortsCall ==
    /\ (stream_exists["stderr"] # "unasked" \/ stream_called["stderr"]) =>
          /\ cur_stream = "stderr"
          /\ (exec_path["stdout"] = None \/ stream_exists["stdout"] # "unasked")
    /\ (l_raised.kind = "RestAPIError" /\ cur_stream = "stdout") =>
          /\ lpc = "raised"
          /\ l_raised.err = dl_raised
          /\ stream_exists["stderr"] = "unasked"
          /\ ~stream_called["stderr"]
          /\ l_local["stderr"] = None
          /\ ~l_returned
          /\ dir_present
          /\ ~ENABLED LNext

C29_Witness ==
    /\ lpc = "raised"
    /\ l_raised.kind = "RestAPIError"
    /\ cur_stream = "stdout"
    /\ exec_path["stderr"] # None
    /\ dir_made

\* C30: in _download_log the 5-second sleeps are as many as the transient
\* failures: a sleep follows every transient failure, the failure of the 12th
\* and last attempt included, and no attempt follows that one.
C30_SleepAfterEveryTransientFailure ==
    /\ dl_sleeps = transientFails
    /\ transientFails <= max_num_retries
    /\ transientFails = max_num_retries =>
          /\ attempts = max_num_retries
          /\ ~ENABLED (\E local \in LocalPaths : DLAttemptOk(local))
          /\ ~ENABLED (\E e \in Errors : DLAttemptFail(e))

C30_Witness ==
    /\ dpc = "returned"
    /\ transientFails = max_num_retries
    /\ dl_sleeps = max_num_retries
    /\ download_path = None

\* C22: a method wrapped with @connected runs its body only when _connected is
\* true and otherwise raises NoHopsworksConnectionError without running it; a
\* method wrapped with @not_connected runs its body only when _connected is
\* false and otherwise raises HopsworksConnectionError without running it.  In
\* every connection state exactly one of the two kinds of method can execute.
C22_GuardsAreExclusive ==
    /\ cpc = "body" => (c_kind = "connected" <=> inst_connected)
    /\ c_body_ran => (c_kind = "connected" <=> c_seen)
    /\ (cpc = "idle" /\ c_outcome # "none") =>
          /\ c_body_ran <=> (c_outcome = "returned")
          /\ c_outcome = "NoHopsworksConnectionError" <=>
                (c_kind = "connected" /\ ~c_seen)
          /\ c_outcome = "HopsworksConnectionError" <=>
                (c_kind = "not_connected" /\ c_seen)
    /\ GuardRaises("connected", inst_connected) # GuardRaises("not_connected", inst_connected)

C22_Witness ==
    /\ cpc = "idle"
    /\ c_kind = "connected"
    /\ c_outcome = "NoHopsworksConnectionError"
    /\ ~c_body_ran
    /\ body_runs["not_connected"] = 1
    /\ body_runs["connected"] = 1

\* C23: after TransformationStatistics(f1, ..., fn) is constructed and until
\* set_statistics is called for a feature, reading any statistics property of a
\* declared feature (min, max, mean, stddev, percentiles, unique_values,
\* histogram, kll, correlations) returns null and does not fail.
C23_FreshStatisticsReadNull ==
    r_fresh => (r_outcome = "value" /\ r_value = None)

\* The same for the statistics __init__ always assigns.
FreshBasicStatisticsReadNull ==
    (r_fresh /\ r_prop \in BasicStats) => (r_outcome = "value" /\ r_value = None)

\* a list of names is ascending, and two lists hold the same names as often
Ascending(list) == \A i \in 1 .. Len(list) - 1 : ~StrLess(list[i + 1], list[i])
SameNames(x, y) ==
    \A n \in Names : Cardinality({i \in 1 .. Len(x) : x[i] = n})
                        = Cardinality({i \in 1 .. Len(y) : y[i] = n})
NamesOf(schema) == [i \in 1 .. Len(schema) |-> schema[i].name]

\* C24: the input features of the inferred schema are the required serving
\* keys, then the passed features, then the request parameters, each group in
\* ascending order of name and the whole not sorted again; every feature whose
\* name the feature view does not have has type 'unknown'.
C24_InputFeaturesInGroupOrder ==
    s_pc = "done" =>
        LET n1 == Len(RequiredKeys(s_keys))
            n2 == Len(s_passed.list)
            n3 == Len(s_params.list)
            g1 == SubSeq(s_inputs, 1, n1)
            g2 == SubSeq(s_inputs, n1 + 1, n1 + n2)
            g3 == SubSeq(s_inputs, n1 + n2 + 1, n1 + n2 + n3)
        IN /\ Len(s_inputs) = n1 + n2 + n3
           /\ Ascending(g1) /\ Ascending(g2) /\ Ascending(g3)
           /\ SameNames(g1, [i \in 1 .. n1 |-> RequiredKeys(s_keys)[i].feature_name])
           /\ SameNames(g2, s_passed.list)
           /\ SameNames(g3, s_params.list)
           /\ NamesOf(s_schema.serving_key_schema) = g1
           /\ NamesOf(s_schema.passed_feature_schema) = g2
           /\ NamesOf(s_schema.request_parameter_schema) = g3
           /\ \A g \in {s_schema.serving_key_schema, s_schema.passed_feature_schema,
                          s_schema.request_parameter_schema} :
                 \A i \in 1 .. Len(g) :
                    \/ [name |-> g[i].name, type |-> g[i].type] \in s_view.features
                    \/ /\ g[i].type = "unknown"
                       /\ \A f \in s_view.features : f.name # g[i].name

C24_Witness ==
    /\ s_pc = "done"
    /\ s_keys = <<[feature_name |-> "b", required |-> TRUE],
                  [feature_name |-> "a", required |-> FALSE]>>
    /\ s_passed.list = <<"ab", "a">>
    /\ s_inputs = <<"b", "a", "ab">>
    /\ s_schema.passed_feature_schema =
          <<[name |-> "a", type |-> "bigint"], [name |-> "ab", type |-> "unknown"]>>

====
